---------------------------- MODULE Spec2Model ----------------------------
(***************************************************************************)
(* C3Tunnel (src/model/c3-tunnel.cc): the periodic control loop of a       *)
(* congestion-controlled tunnel.  Update = UpdateInfo; UpdateRate;         *)
(* ScheduleFlow; recorder reset; m_sentBytes := 0; re-arm the timer.       *)
(*                                                                         *)
(* Numbers.  The C++ doubles (m_alpha, m_g, m_weight, m_weightRequest,     *)
(* the marked ratio, the candidate rate) are modelled as exact rationals   *)
(* <<n, d>> with d > 0, kept in lowest terms.  A DataRate is its uint64    *)
(* bit rate; DataRate(double) converts by truncation, modelled by floor    *)
(* division on the exact rational.  TLC integers are 32 bit, so the        *)
(* inputs are bounded to keep every value below 2^31.  Weights are taken   *)
(* non-negative (a share of capacity); a zero interval makes the candidate *)
(* non-finite, whose conversion is any value of UndefinedConversion.       *)
(*                                                                         *)
(* Faults.  A call through the released m_ecnRecorder (line 176) or the    *)
(* null m_forwardTarget (line 161) stops the program: fault records which. *)
(***************************************************************************)
EXTENDS Integers, FiniteSets, Sequences, TLC

VARIABLES
  self,        \* the C3Tunnel object: one field per data member
  initEvent,   \* the Initialize event the constructor scheduled is pending
  fault,       \* "none", or the fatal fault that stopped the program
  ticks,       \* number of Update runs so far (bounds the run)
  sinceTick,   \* bytes and packets passed to Forward, and callback invocations,
               \* since the last Update (observation only)
  last         \* the branch the last Update took (observation only)

vars == <<self, initEvent, fault, ticks, sinceTick, last>>

-----------------------------------------------------------------------------
(* Bounds of the model *)

MaxTicks == 2
MaxSentBytes == 17500
MaxEcnBytes == 3000

(* Program constants *)

IncrementBps == 10000000
DefaultMaxRate == 1000000000
DefaultMinRate == 1000000
DefaultRateThresh == 500000000

-----------------------------------------------------------------------------
(* Exact rationals <<n, d>>, d > 0 *)

RECURSIVE GCD(_, _)
GCD(a, b) == IF b = 0 THEN a ELSE GCD(b, a % b)

Abs(x) == IF x < 0 THEN -x ELSE x

Norm(n, d) ==
  LET k == GCD(Abs(n), d) IN IF k = 0 THEN <<0, 1>> ELSE <<n \div k, d \div k>>

RAdd(a, b) == Norm(a[1] * b[2] + b[1] * a[2], a[2] * b[2])
RMul(a, b) == Norm(a[1] * b[1], a[2] * b[2])
RSub(a, b) == Norm(a[1] * b[2] - b[1] * a[2], a[2] * b[2])
RLeq(a, b) == a[1] * b[2] <= b[1] * a[2]
Zero == <<0, 1>>
One == <<1, 1>>

\* floor (x * p / q) for naturals x, p and q > 0, without forming x * p
MulDivFloor(x, p, q) == (x \div q) * p + ((x % q) * p) \div q

\* floor (a/b + c/d) for naturals a, c and b, d > 0, without forming a * d
AddDivFloor(a, b, c, d) ==
  (a \div b) + (c \div d) + ((a % b) * d + (c % d) * b) \div (b * d)

Max(a, b) == IF a < b THEN b ELSE a
Min(a, b) == IF b < a THEN b ELSE a

\* DataRate holds a uint64_t; the model holds rates up to RateCap, which is
\* above every rateMax, so a candidate at the cap is clamped as the true one is
RateCap == 2000000000

RECURSIVE WideMulDiv(_, _, _)
\* quotient (held up to RateCap) and remainder of u * a / q, by binary
\* double-and-add on u, without forming u * a
WideMulDiv(u, a, q) ==
  IF u = 0 THEN [quo |-> 0, rem |-> 0]
  ELSE LET h == WideMulDiv(u \div 2, a, q)
           r == 2 * h.rem + (u % 2) * (a % q)
       IN [quo |-> IF h.quo >= (RateCap + 1) \div 2 THEN RateCap
                   ELSE Min(RateCap, 2 * h.quo + r \div q + (u % 2) * (a \div q)),
           rem |-> r % q]


-----------------------------------------------------------------------------
(* Inputs and configurations explored *)

FlowIds == {1, 2}
FlowWeight(id) == IF id = 1 THEN <<1, 2>> ELSE <<1, 4>>
PacketSizes == {7500, 10000}
EcnSizes == {1500}
Weights == {<<0, 1>>, <<1, 10>>, <<1, 2>>}
ThreshInputs == {100000000, DefaultRateThresh}
Gammas == {<<1, 16>>, <<1, 2>>}
Intervals == {<<1, 10000>>, <<3, 10000>>}
RateBounds == {<<DefaultMinRate, DefaultMaxRate>>, <<200000000, 100000000>>}
\* what an out-of-range double -> uint64 conversion may yield
UndefinedConversion == {0, 2147483647}

-----------------------------------------------------------------------------
(* Collaborators: the ECN recorder and the flows *)

NewEcnRecorder == [null |-> FALSE, markedBytes |-> 0, totalBytes |-> 0]
NullEcnRecorder == [null |-> TRUE, markedBytes |-> 0, totalBytes |-> 0]

\* marked bytes / total bytes of the interval, 0 when nothing was received
GetMarkedRatio(r) ==
  IF r.totalBytes = 0 THEN Zero ELSE Norm(r.markedBytes, r.totalBytes)

GetMarkedBytes(r) == r.markedBytes

EcnReset(r) == [r EXCEPT !.markedBytes = 0, !.totalBytes = 0]

NewFlow(id) == [finished |-> FALSE, weight |-> FlowWeight(id), updates |-> 0]

\* flow->UpdateInfo (): the flow refreshes its own demand
FlowUpdateInfo(f) == [f EXCEPT !.updates = @ + 1]

-----------------------------------------------------------------------------
(* The tunnel *)

EmptyFlowList == [id \in {} |-> NewFlow(id)]

\* C3Tunnel::C3Tunnel, then the attribute defaults g, iv, bounds the framework applies
Construct(g, iv, bounds) ==
  [ m_alpha |-> One,
    m_g |-> g,
    m_weight |-> Zero,
    m_weightRequest |-> Zero,
    m_rate |-> 0,
    m_rateThresh |-> DefaultRateThresh,
    m_rateMin |-> bounds[1],
    m_rateMax |-> bounds[2],
    m_sentBytes |-> 0,
    m_interval |-> iv,
    m_timer |-> FALSE,
    m_ecnRecorder |-> NewEcnRecorder,
    m_forwardTarget |-> FALSE,
    m_flowList |-> EmptyFlowList,
    m_disposed |-> FALSE ]

GetRate == self.m_rate
GetWeightRequest == self.m_weightRequest

-----------------------------------------------------------------------------
(* C3Tunnel::UpdateInfo *)

\* mutant: the past estimate is not scaled down by (1 - m_g)
NextAlphaNoDecay(t) ==
  RAdd(t.m_alpha, RMul(t.m_g, GetMarkedRatio(t.m_ecnRecorder)))

\* m_alpha = (1 - m_g) * m_alpha + m_g * m_ecnRecorder->GetMarkedRatio ()
NextAlpha(t) ==
  RAdd(RMul(RSub(One, t.m_g), t.m_alpha),
       RMul(t.m_g, GetMarkedRatio(t.m_ecnRecorder)))

RECURSIVE SumWeightsAll(_, _)
\* mutant: finished flows are summed too
SumWeightsAll(fl, ids) ==
  IF ids = {} THEN Zero
  ELSE LET id == CHOOSE x \in ids : \A y \in ids : x <= y
       IN RAdd(fl[id].weight, SumWeightsAll(fl, ids \ {id}))

RECURSIVE SumWeights(_, _)
\* the loop over m_flowList: weightRequest += flow->GetWeight () for unfinished flows
SumWeights(fl, ids) ==
  IF ids = {} THEN Zero
  ELSE LET id == CHOOSE x \in ids : \A y \in ids : x <= y
           rest == SumWeights(fl, ids \ {id})
       IN IF ~fl[id].finished
            THEN RAdd(FlowUpdateInfo(fl[id]).weight, rest)
            ELSE rest

\* the loop's effect on the flows: flow->UpdateInfo () for unfinished flows
RefreshFlows(fl) ==
  [id \in DOMAIN fl |-> IF ~fl[id].finished THEN FlowUpdateInfo(fl[id]) ELSE fl[id]]

UpdateInfo(t) ==
  [t EXCEPT !.m_alpha = NextAlpha(t),
            !.m_weightRequest = SumWeights(t.m_flowList, DOMAIN t.m_flowList),
            !.m_flowList = RefreshFlows(t.m_flowList)]

-----------------------------------------------------------------------------
(* C3Tunnel::UpdateRate *)

\* mutant: congestion is decided by the magnitude of alpha
BranchOnAlpha(t) ==
  IF t.m_alpha[1] # 0 THEN "congestion"
  ELSE IF t.m_rate < t.m_rateThresh THEN "slow-start"
  ELSE "avoidance"

\* the branch UpdateRate takes
Branch(t) ==
  IF GetMarkedBytes(t.m_ecnRecorder) # 0 THEN "congestion"
  ELSE IF t.m_rate < t.m_rateThresh THEN "slow-start"
  ELSE "avoidance"

\* mutant: congestion raises the candidate, (1 + m_alpha / 4) * prevRate
CongestionRateIncrease(t, ub) ==
  IF t.m_interval[1] = 0 THEN ub
  ELSE MulDivFloor(t.m_sentBytes * 8 * t.m_interval[2],
                   4 * t.m_alpha[2] + t.m_alpha[1],
                   4 * t.m_alpha[2] * t.m_interval[1])

\* DataRate ((1 - m_alpha / 2) * prevRate), prevRate = m_sentBytes * 8 / seconds
CongestionRate(t, ub) ==
  IF t.m_interval[1] = 0 THEN ub
  ELSE MulDivFloor(t.m_sentBytes * 8 * t.m_interval[2],
                   2 * t.m_alpha[2] - t.m_alpha[1],
                   2 * t.m_alpha[2] * t.m_interval[1])

\* mutant: slow start grows the stored rate instead of the achieved throughput
SlowStartOnStoredRate(t, ub) ==
  MulDivFloor(t.m_rate, t.m_weight[2] + t.m_weight[1], t.m_weight[2])

\* DataRate ((1 + m_weight) * prevRate)
SlowStartRate(t, ub) ==
  IF t.m_interval[1] = 0 THEN ub
  ELSE WideMulDiv(t.m_sentBytes * 8,
                  t.m_interval[2] * (t.m_weight[2] + t.m_weight[1]),
                  t.m_weight[2] * t.m_interval[1]).quo

\* DataRate (prevRate + m_weight * DataRate ("10Mbps").GetBitRate ())
AvoidanceRate(t, ub) ==
  IF t.m_interval[1] = 0 THEN ub
  ELSE LET prev == WideMulDiv(t.m_sentBytes * 8, t.m_interval[2], t.m_interval[1])
           inc == t.m_weight[1] * IncrementBps
       IN Min(RateCap,
              prev.quo + inc \div t.m_weight[2]
                + (prev.rem * t.m_weight[2] + (inc % t.m_weight[2]) * t.m_interval[1])
                    \div (t.m_interval[1] * t.m_weight[2]))

\* mutant: the lower bound is not applied
ClampUpperOnly(rate, lo, hi) == Min(rate, hi)

\* mutant: the upper bound is not applied
ClampLowerOnly(rate, lo, hi) == Max(rate, lo)

\* std::max (std::min (rate, m_rateMax), m_rateMin)
Clamp(rate, lo, hi) == Max(Min(rate, hi), lo)

\* mutant: the threshold receives the clamped rate
UpdateRateClampedThresh(t, ub) ==
  LET b == Branch(t)
      rate == CASE b = "congestion" -> CongestionRate(t, ub)
                [] b = "slow-start" -> SlowStartRate(t, ub)
                [] OTHER -> AvoidanceRate(t, ub)
      clamped == Clamp(rate, t.m_rateMin, t.m_rateMax)
  IN [t EXCEPT !.m_rateThresh = IF b = "congestion" THEN clamped ELSE @,
               !.m_rate = clamped]

\* mutant: the threshold follows the candidate in the growth branches too
UpdateRateThreshAlways(t, ub) ==
  LET b == Branch(t)
      rate == CASE b = "congestion" -> CongestionRate(t, ub)
                [] b = "slow-start" -> SlowStartRate(t, ub)
                [] OTHER -> AvoidanceRate(t, ub)
  IN [t EXCEPT !.m_rateThresh = rate,
               !.m_rate = Clamp(rate, t.m_rateMin, t.m_rateMax)]

UpdateRate(t, ub) ==
  LET b == Branch(t)
      rate == CASE b = "congestion" -> CongestionRate(t, ub)
                [] b = "slow-start" -> SlowStartRate(t, ub)
                [] OTHER -> AvoidanceRate(t, ub)
  IN [t EXCEPT !.m_rateThresh = IF b = "congestion" THEN rate ELSE @,
               !.m_rate = Clamp(rate, t.m_rateMin, t.m_rateMax)]

\* ScheduleFlow (): hands the budget to the flows; no member of the tunnel changes
ScheduleFlow(t) == t

\* mutant: the interval counters are cleared before the rate is computed
UpdateBodyResetFirst(t, ub) ==
  LET t1 == UpdateInfo(t)
      t2 == [t1 EXCEPT !.m_ecnRecorder = EcnReset(@)]
      t3 == [t2 EXCEPT !.m_sentBytes = 0]
      t4 == UpdateRate(t3, ub)
      t5 == ScheduleFlow(t4)
  IN [t5 EXCEPT !.m_timer = TRUE]

\* mutant: Update does not schedule the next tick
UpdateBodyNoReschedule(t, ub) ==
  LET t1 == UpdateInfo(t)
      t2 == UpdateRate(t1, ub)
      t3 == ScheduleFlow(t2)
      t4 == [t3 EXCEPT !.m_ecnRecorder = EcnReset(@)]
      t5 == [t4 EXCEPT !.m_sentBytes = 0]
  IN [t5 EXCEPT !.m_timer = FALSE]

\* the body of C3Tunnel::Update up to the re-arming of the timer
UpdateBody(t, ub) ==
  LET t1 == UpdateInfo(t)
      t2 == UpdateRate(t1, ub)
      t3 == ScheduleFlow(t2)
      t4 == [t3 EXCEPT !.m_ecnRecorder = EcnReset(@)]
      t5 == [t4 EXCEPT !.m_sentBytes = 0]
  IN [t5 EXCEPT !.m_timer = TRUE]

-----------------------------------------------------------------------------
(* State machine *)

NoForwards == [bytes |-> 0, forwards |-> 0, calls |-> 0]

InitWith(G, I, B) ==
  /\ self \in {Construct(g, iv, b) : g \in G, iv \in I, b \in B}
  /\ initEvent = TRUE
  /\ fault = "none"
  /\ ticks = 0
  /\ sinceTick = NoForwards
  /\ last = "none"

Init == InitWith(Gammas, Intervals, RateBounds)

\* the event scheduled by the constructor runs: Object::Initialize -> DoInitialize
Initialize ==
  /\ fault = "none"
  /\ initEvent
  /\ initEvent' = FALSE
  /\ self' = [self EXCEPT !.m_timer = TRUE]
  /\ UNCHANGED <<fault, ticks, sinceTick, last>>

\* the timer expires and runs C3Tunnel::Update
Update ==
  /\ fault = "none"
  /\ self.m_timer
  /\ ticks < MaxTicks
  /\ IF self.m_ecnRecorder.null
       THEN /\ fault' = "null-ecn-recorder"
            /\ self' = [self EXCEPT !.m_timer = FALSE]
            /\ UNCHANGED <<initEvent, ticks, sinceTick, last>>
       ELSE \E ub \in UndefinedConversion :
            /\ self' = UpdateBody(self, ub)
            /\ ticks' = ticks + 1
            /\ sinceTick' = NoForwards
            /\ last' = Branch(UpdateInfo(self))
            /\ UNCHANGED <<initEvent, fault>>

\* the calls of Update into the collaborators, in the order Update makes them
EcnCalls == {"GetMarkedRatio", "GetMarkedBytes", "Reset"}

\* mutant: a faulting tick is rolled back, the tick staying pending
AbortedAtRolledBack(t, call, id, ub) == t

\* The tunnel when Update is left by a fault raised in the given call (id is
\* the flow whose UpdateInfo raised it): nothing is caught or undone, so the
\* statements before the call have run, those after it have not, and the
\* expired timer is not armed again.
AbortedAt(t, call, id, ub) ==
  LET expired == [t EXCEPT !.m_timer = FALSE]
  IN CASE call = "GetMarkedRatio" -> expired
       [] call = "UpdateInfo" ->
            [expired EXCEPT
               !.m_alpha = NextAlpha(t),
               !.m_flowList = [x \in DOMAIN @ |->
                                 IF x < id /\ ~@[x].finished
                                   THEN FlowUpdateInfo(@[x]) ELSE @[x]]]
       [] call = "GetMarkedBytes" -> UpdateInfo(expired)
       [] OTHER -> ScheduleFlow(UpdateRate(UpdateInfo(expired), ub))

\* the timer expires and runs Update, and a call into the ECN recorder faults
EcnFaults(call) ==
  /\ fault = "none"
  /\ self.m_timer
  /\ ticks < MaxTicks
  /\ ~self.m_ecnRecorder.null
  /\ \E ub \in UndefinedConversion : self' = AbortedAt(self, call, 0, ub)
  /\ fault' = call
  /\ UNCHANGED <<initEvent, ticks, sinceTick, last>>

\* the timer expires and runs Update, and UpdateInfo of an unfinished flow faults
FlowFaults(id) ==
  /\ fault = "none"
  /\ self.m_timer
  /\ ticks < MaxTicks
  /\ ~self.m_ecnRecorder.null
  /\ id \in DOMAIN self.m_flowList
  /\ ~self.m_flowList[id].finished
  /\ self' = AbortedAt(self, "UpdateInfo", id, 0)
  /\ fault' = "UpdateInfo"
  /\ UNCHANGED <<initEvent, ticks, sinceTick, last>>

\* mutant: the packet is forwarded but its size is not recorded
ForwardUncounted(size) ==
  /\ fault = "none"
  /\ self.m_sentBytes + size <= MaxSentBytes
  /\ self.m_forwardTarget
  /\ sinceTick' = [bytes |-> sinceTick.bytes + size,
                   forwards |-> sinceTick.forwards + 1,
                   calls |-> sinceTick.calls + 1]
  /\ UNCHANGED <<self, initEvent, fault, ticks, last>>

\* mutant: a packet that would exceed the interval's budget, rate * interval, is
\* dropped instead of being handed to the forward target
ForwardPaced(size) ==
  /\ fault = "none"
  /\ self.m_sentBytes + size <= MaxSentBytes
  /\ self.m_forwardTarget
  /\ IF ((self.m_sentBytes + size) * 8 * self.m_interval[2]) \div self.m_interval[1]
          > self.m_rate
       THEN /\ sinceTick' = [sinceTick EXCEPT !.forwards = @ + 1]
            /\ UNCHANGED self
       ELSE /\ sinceTick' = [bytes |-> sinceTick.bytes + size,
                             forwards |-> sinceTick.forwards + 1,
                             calls |-> sinceTick.calls + 1]
            /\ self' = [self EXCEPT !.m_sentBytes = @ + size]
  /\ UNCHANGED <<initEvent, fault, ticks, last>>

Forward(size) ==
  /\ fault = "none"
  /\ self.m_sentBytes + size <= MaxSentBytes
  /\ self' = [self EXCEPT !.m_sentBytes = @ + size]
  /\ IF self.m_forwardTarget
       THEN /\ sinceTick' = [bytes |-> sinceTick.bytes + size,
                             forwards |-> sinceTick.forwards + 1,
                             calls |-> sinceTick.calls + 1]
            /\ UNCHANGED fault
       ELSE /\ sinceTick' = [sinceTick EXCEPT !.bytes = @ + size, !.forwards = @ + 1]
            /\ fault' = "null-callback"
  /\ UNCHANGED <<initEvent, ticks, last>>

SetForwardTarget ==
  /\ fault = "none"
  /\ ~self.m_disposed
  /\ ~self.m_forwardTarget
  /\ self' = [self EXCEPT !.m_forwardTarget = TRUE]
  /\ UNCHANGED <<initEvent, fault, ticks, sinceTick, last>>

\* mutant: the new weight is applied to the stored rate at once
SetWeightAndRate(weight) ==
  /\ fault = "none"
  /\ self' = [self EXCEPT
                !.m_weight = weight,
                !.m_rate = Clamp(SlowStartOnStoredRate([self EXCEPT !.m_weight = weight], 0),
                                 self.m_rateMin, self.m_rateMax)]
  /\ UNCHANGED <<initEvent, fault, ticks, sinceTick, last>>

SetWeight(weight) ==
  /\ fault = "none"
  /\ self' = [self EXCEPT !.m_weight = weight]
  /\ UNCHANGED <<initEvent, fault, ticks, sinceTick, last>>

SetRateThresh(rate) ==
  /\ fault = "none"
  /\ self' = [self EXCEPT !.m_rateThresh = rate]
  /\ UNCHANGED <<initEvent, fault, ticks, sinceTick, last>>

\* the recorder tallies one received packet of the interval
EcnRecord(size, marked) ==
  /\ fault = "none"
  /\ ~self.m_ecnRecorder.null
  /\ self.m_ecnRecorder.totalBytes + size <= MaxEcnBytes
  /\ self' = [self EXCEPT
                !.m_ecnRecorder.totalBytes = @ + size,
                !.m_ecnRecorder.markedBytes = IF marked THEN @ + size ELSE @]
  /\ UNCHANGED <<initEvent, fault, ticks, sinceTick, last>>

\* a flow is entered in the flow table by its creator
AddFlow(id) ==
  /\ fault = "none"
  /\ ~self.m_disposed
  /\ id \notin DOMAIN self.m_flowList
  /\ self' = [self EXCEPT !.m_flowList =
                [x \in DOMAIN @ \cup {id} |-> IF x = id THEN NewFlow(id) ELSE @[x]]]
  /\ UNCHANGED <<initEvent, fault, ticks, sinceTick, last>>

\* a flow completes
FinishFlow(id) ==
  /\ fault = "none"
  /\ id \in DOMAIN self.m_flowList
  /\ ~self.m_flowList[id].finished
  /\ self' = [self EXCEPT !.m_flowList[id].finished = TRUE]
  /\ UNCHANGED <<initEvent, fault, ticks, sinceTick, last>>

\* Object::Dispose -> C3Tunnel::DoDispose
Dispose ==
  /\ fault = "none"
  /\ ~self.m_disposed
  /\ self' = [self EXCEPT !.m_timer = FALSE,
                          !.m_ecnRecorder = NullEcnRecorder,
                          !.m_forwardTarget = FALSE,
                          !.m_flowList = EmptyFlowList,
                          !.m_disposed = TRUE]
  /\ UNCHANGED <<initEvent, fault, ticks, sinceTick, last>>

Next ==
  \/ Initialize
  \/ Update
  \/ \E size \in PacketSizes : Forward(size)
  \/ SetForwardTarget
  \/ \E weight \in Weights : SetWeight(weight)
  \/ \E rate \in ThreshInputs : SetRateThresh(rate)
  \/ \E size \in EcnSizes, marked \in BOOLEAN : EcnRecord(size, marked)
  \/ \E id \in FlowIds : AddFlow(id)
  \/ \E id \in FlowIds : FinishFlow(id)
  \/ Dispose

Spec == Init /\ [][Next]_vars

-----------------------------------------------------------------------------
(* Specifications of parts of the environment.  Each keeps every action    *)
(* whole and only restricts which callers are present.                     *)

\* the attribute defaults: Gamma 1/16, Interval 100us, MinRate 1Mbps, MaxRate 1000Mbps
InitDefault ==
  InitWith({<<1, 16>>}, {<<1, 10000>>}, {<<DefaultMinRate, DefaultMaxRate>>})

\* rate control: traffic, ECN feedback and the outer scheduler; any configuration
NextRate ==
  \/ Initialize
  \/ Update
  \/ \E size \in PacketSizes : Forward(size)
  \/ SetForwardTarget
  \/ \E weight \in Weights : SetWeight(weight)
  \/ \E rate \in ThreshInputs : SetRateThresh(rate)
  \/ \E size \in EcnSizes, marked \in BOOLEAN : EcnRecord(size, marked)

SpecRate == Init /\ [][NextRate]_vars

\* flow aggregation: flows come and finish while the tunnel ticks
NextFlow ==
  \/ Initialize
  \/ Update
  \/ \E id \in FlowIds : AddFlow(id)
  \/ \E id \in FlowIds : FinishFlow(id)
  \/ \E size \in EcnSizes, marked \in BOOLEAN : EcnRecord(size, marked)
  \/ Dispose

SpecFlow == InitDefault /\ [][NextFlow]_vars

\* lifecycle: construction, initialization, traffic, disposal
NextLife ==
  \/ Initialize
  \/ Update
  \/ \E size \in PacketSizes : Forward(size)
  \/ SetForwardTarget
  \/ \E size \in EcnSizes, marked \in BOOLEAN : EcnRecord(size, marked)
  \/ \E id \in FlowIds : AddFlow(id)
  \/ Dispose

SpecLife == InitDefault /\ [][NextLife]_vars

\* the lifecycle under a fair clock: an armed timer eventually expires
\* The expiry of the timer as seen on ticks and fault: a step of the lifecycle
\* is an Update step exactly when it is a TimerExpires step, and the two are
\* enabled in the same states, so fairness of one is fairness of the other;
\* this one has an enabling condition that is evaluated without running the
\* arithmetic of the tick.
TimerExpires ==
  /\ fault = "none"
  /\ self.m_timer
  /\ ticks < MaxTicks
  /\ IF self.m_ecnRecorder.null
       THEN fault' = "null-ecn-recorder" /\ ticks' = ticks
       ELSE ticks' = ticks + 1 /\ fault' = fault

SpecTimer ==
  InitDefault /\ [][NextLife]_vars /\ WF_<<ticks, fault>>(TimerExpires)

\* the control loop with collaborators that may fault during a tick
NextFault ==
  \/ Initialize
  \/ Update
  \/ \E size \in PacketSizes : Forward(size)
  \/ SetForwardTarget
  \/ \E id \in FlowIds : AddFlow(id)
  \/ \E size \in EcnSizes, marked \in BOOLEAN : EcnRecord(size, marked)
  \/ \E call \in EcnCalls : EcnFaults(call)
  \/ \E id \in FlowIds : FlowFaults(id)

SpecFault == InitDefault /\ [][NextFault]_vars

\* End-to-end scenario: the tunnel just before a tick that follows an interval
\* in which 125000 bytes were forwarded.  The state is one the program reaches:
\* a first tick with every byte marked and nothing forwarded leaves alpha = 1
\* and rate = rateMin, then SetRateThresh, SetWeight, SetForwardTarget and the
\* forwards bring it here.  ticks counts the ticks from this state on.
InitScenario ==
  /\ self \in {[Construct(g, iv, <<DefaultMinRate, DefaultMaxRate>>) EXCEPT
                  !.m_rate = DefaultMinRate,
                  !.m_weight = w,
                  !.m_sentBytes = 125000,
                  !.m_timer = TRUE,
                  !.m_forwardTarget = TRUE] :
               g \in Gammas, iv \in Intervals, w \in Weights}
  /\ initEvent = FALSE
  /\ fault = "none"
  /\ ticks = 0
  /\ sinceTick = NoForwards
  /\ last = "none"

\* the intervals of the scenario carry no marked byte
NextScenario ==
  \/ Update
  \/ \E size \in PacketSizes : Forward(size)
  \/ \E w \in Weights : SetWeight(w)
  \/ \E r \in ThreshInputs : SetRateThresh(r)
  \/ \E size \in EcnSizes : EcnRecord(size, FALSE)

SpecScenario == InitScenario /\ [][NextScenario]_vars

\* configuration: the values offered for the Interval attribute and its checker,
\* MakeTimeChecker (Time (0)), which accepts every interval >= 0
IntervalInputs == {<<-1, 10000>>, <<0, 1>>, <<1, 10000>>}
IntervalChecker(iv) == iv[1] >= 0

InitConfigured ==
  InitWith({<<1, 16>>}, {iv \in IntervalInputs : IntervalChecker(iv)},
           {<<DefaultMinRate, DefaultMaxRate>>})

SpecConfig == InitConfigured /\ [][NextRate]_vars

-----------------------------------------------------------------------------
(* Properties *)

\* a step that completes one Update
Tick == ticks' = ticks + 1

InRange(x, lo, hi) == lo <= x /\ x <= hi

\* C1: after every completed Update, whenever rateMin <= rateMax, the stored
\* rate lies in [rateMin, rateMax], whatever the candidate was.
C1_RateClampedAfterTick ==
  (ticks > 0 /\ self.m_rateMin <= self.m_rateMax)
    => InRange(self.m_rate, self.m_rateMin, self.m_rateMax)

\* a congestion tick whose candidate was 0 (nothing sent) left rate = rateMin
C1_Witness ==
  /\ ticks > 0
  /\ last = "congestion"
  /\ self.m_rateThresh = 0
  /\ self.m_rateMin <= self.m_rateMax
  /\ self.m_rate = self.m_rateMin

\* C2: in every reachable state, from construction onward, GetRate is within
\* [rateMin, rateMax] (stated for the configurations with rateMin <= rateMax).
C2_RateAlwaysWithinBounds ==
  (self.m_rateMin <= self.m_rateMax)
    => InRange(GetRate, self.m_rateMin, self.m_rateMax)

\* C3: one Update refreshes alpha first, computes the rate from the refreshed
\* alpha and from the sent bytes and marked bytes gathered since the previous
\* tick, and only then clears the recorder and m_sentBytes and re-arms the timer.
C3_TickOrder ==
  [][Tick =>
       LET seen == [self EXCEPT !.m_alpha = self'.m_alpha]
       IN /\ self'.m_alpha = NextAlpha(self)
          /\ \E ub \in UndefinedConversion :
               /\ self'.m_rate = UpdateRate(seen, ub).m_rate
               /\ self'.m_rateThresh = UpdateRate(seen, ub).m_rateThresh
          /\ self'.m_sentBytes = 0
          /\ self'.m_ecnRecorder.markedBytes = 0
          /\ self'.m_ecnRecorder.totalBytes = 0
          /\ self'.m_timer]_vars

\* a congestion tick just ran: the counters are cleared, yet the threshold it
\* stored is positive, so it was computed from the bytes sent before the reset
C3_Witness ==
  /\ last = "congestion"
  /\ self.m_sentBytes = 0
  /\ self.m_ecnRecorder.totalBytes = 0
  /\ self.m_timer
  /\ self.m_rateThresh > self.m_rateMin
  /\ self.m_rateThresh < self.m_rateMax
  /\ self.m_rate = self.m_rateThresh

\* C4: a tick takes the congestion branch iff the recorder reports marked
\* bytes for the interval, whatever alpha, rate, rateThresh and weight are.
C4_BranchIffMarked ==
  [][Tick => (last' = "congestion" <=> self.m_ecnRecorder.markedBytes > 0)]_vars

\* a tick took a growth branch although alpha was still large
C4_Witness ==
  /\ ticks > 0
  /\ last # "congestion"
  /\ RLeq(<<1, 2>>, self.m_alpha)

\* the candidate of a congestion tick, (1 - alpha/2) * sentBytes*8/interval, as
\* whole bits per second and the remaining fraction's numerator (over den);
\* alpha is the refreshed estimate, sentBytes the pre-reset count
CongestionCandidate(alpha, sentBytes, interval) ==
  LET x == sentBytes * 8 * interval[2]
      p == 2 * alpha[2] - alpha[1]
      q == 2 * alpha[2] * interval[1]
  IN [whole |-> MulDivFloor(x, p, q), rem |-> ((x % q) * p) % q, den |-> q]

\* C5 as stated: after a congestion tick rateThresh equals the unclamped
\* candidate (1 - alpha/2) * (sentBytes*8/interval) exactly.
C5_ThreshEqualsCandidate ==
  [][(Tick /\ self.m_ecnRecorder.markedBytes > 0) =>
       LET c == CongestionCandidate(self'.m_alpha, self.m_sentBytes, self.m_interval)
       IN self'.m_rateThresh = c.whole /\ c.rem = 0]_vars

\* C5 amended: after a congestion tick rateThresh equals the unclamped
\* candidate truncated to whole bits per second (the DataRate made from it),
\* also when it lies outside [rateMin, rateMax]; only rate is clamped.
C5_ThreshEqualsTruncatedCandidate ==
  [][(Tick /\ self.m_ecnRecorder.markedBytes > 0) =>
       LET c == CongestionCandidate(self'.m_alpha, self.m_sentBytes, self.m_interval)
       IN /\ self'.m_rateThresh = c.whole
          /\ self'.m_rate = Max(Min(c.whole, self.m_rateMax), self.m_rateMin)]_vars

\* a congestion tick left the threshold above rateMax and the rate at rateMax
C5_Witness ==
  /\ last = "congestion"
  /\ self.m_rateMin <= self.m_rateMax
  /\ self.m_rateThresh > self.m_rateMax
  /\ self.m_rate = self.m_rateMax

\* C6: a tick without marked bytes picks its growth formula by comparing the
\* rate stored before the tick with rateThresh: below it the candidate is
\* (1 + weight) * prevRateBps, otherwise prevRateBps + weight * 10 Mbit/s,
\* with prevRateBps = sentBytes*8/interval; the stored rate is the candidate
\* as a DataRate, clamped.
C6_GrowthFormula ==
  [][(Tick /\ self.m_ecnRecorder.markedBytes = 0) =>
       LET x == self.m_sentBytes * 8 * self.m_interval[2]
           s == self.m_interval[1]
           w == self.m_weight
           cand == IF self.m_rate < self.m_rateThresh
                     THEN MulDivFloor(x, w[2] + w[1], w[2] * s)
                     ELSE AddDivFloor(x, s, w[1] * IncrementBps, w[2])
       IN /\ self'.m_rate = Max(Min(cand, self.m_rateMax), self.m_rateMin)
          /\ last' = (IF self.m_rate < self.m_rateThresh
                        THEN "slow-start" ELSE "avoidance")]_vars

\* an avoidance tick on an idle interval: the rate is exactly weight * 10 Mbit/s
C6_Witness ==
  /\ last = "avoidance"
  /\ self.m_weight = <<1, 2>>
  /\ self.m_rate = 5000000
  /\ self.m_rateMin < self.m_rate

\* C7: each tick sets alpha to (1-g)*alpha + g*markedRatio, and alpha stays
\* within [0,1] in every reachable state.
C7_AlphaEwmaInUnitInterval ==
  /\ [](RLeq(Zero, self.m_alpha) /\ RLeq(self.m_alpha, One))
  /\ [][Tick =>
          LET r == self.m_ecnRecorder
              ratio == IF r.totalBytes = 0 THEN Zero
                       ELSE Norm(r.markedBytes, r.totalBytes)
              g == self.m_g
              a == self.m_alpha
              n == (g[2] - g[1]) * a[1] * ratio[2] + g[1] * ratio[1] * a[2]
              d == g[2] * a[2] * ratio[2]
          IN self'.m_alpha[1] * d = n * self'.m_alpha[2]]_vars

\* two ticks, each with half the bytes marked, moved alpha strictly inside (0,1)
C7_Witness ==
  /\ ticks = 2
  /\ self.m_g = <<1, 16>>
  /\ self.m_alpha = <<481, 512>>

\* the weights of the flows of table fl that are unfinished, summed pairwise
ActiveWeight(fl, id) ==
  IF id \in DOMAIN fl /\ ~fl[id].finished THEN fl[id].weight ELSE Zero

\* C8: after each tick weightRequest is the sum of GetWeight () over exactly
\* the unfinished flows of the table, recomputed from zero; a finished flow
\* adds nothing, is not asked to UpdateInfo and stays in the table.
C8_WeightRequestSumsUnfinished ==
  [][Tick =>
       LET old == self.m_flowList
           new == self'.m_flowList
       IN /\ DOMAIN new = DOMAIN old
          /\ \A id \in DOMAIN old :
               /\ new[id].finished = old[id].finished
               /\ new[id].updates =
                    (IF old[id].finished THEN old[id].updates ELSE old[id].updates + 1)
          /\ self'.m_weightRequest = RAdd(ActiveWeight(new, 1), ActiveWeight(new, 2))]_vars

\* flow 1 was refreshed by the first tick, had finished by the second and is
\* still in the table; the second tick counted flow 2 alone
C8_Witness ==
  /\ ticks = 2
  /\ DOMAIN self.m_flowList = {1, 2}
  /\ self.m_flowList[1].finished /\ self.m_flowList[1].updates = 1
  /\ ~self.m_flowList[2].finished /\ self.m_flowList[2].updates = 2
  /\ self.m_weightRequest = <<1, 4>>

\* C9: m_sentBytes is the total size of the packets passed to Forward since
\* the last completed Update (or since construction): Forward adds the
\* packet's size and invokes the callback once, Update resets the count.
C9_SentBytesCountsForwards ==
  /\ self.m_sentBytes = sinceTick.bytes
  /\ (sinceTick.forwards = 0 => self.m_sentBytes = 0)
  /\ (fault = "none" => sinceTick.calls = sinceTick.forwards)

\* after a tick, two packets have been forwarded and counted
C9_Witness ==
  /\ ticks > 0
  /\ fault = "none"
  /\ sinceTick.calls = 2
  /\ self.m_sentBytes = 17500

\* C10: once the tunnel is disposed no Update runs its body or faults on the
\* released ECN recorder.
C10_NoUpdateAfterDispose ==
  self.m_disposed => fault # "null-ecn-recorder"


\* C11: disposal is terminal: once the tunnel is disposed no tick is armed,
\* whatever the order of the constructor's Initialize event and Dispose.
C11_NoTickArmedAfterDispose ==
  self.m_disposed => ~self.m_timer


\* C12: a zero (non-positive) interval is rejected by configuration validation,
\* so no Update computes sentBytes*8/interval with interval = 0.
C12_NoTickWithZeroInterval ==
  ticks > 0 => self.m_interval[1] > 0


\* the tunnel is Active: initialized, not disposed, and the run has not faulted
Active == ~initEvent /\ ~self.m_disposed /\ fault = "none"

\* C13: the timer is armed once at initialization (it was not armed before),
\* re-armed by every Update that consumed the pending tick, and cancelled at
\* disposal; while the tunnel is Active a tick is always pending, and under a
\* fair clock every Update is followed by another one unless the tunnel
\* stops being Active.
C13_OneTickPendingWhileActive ==
  /\ [](Active => self.m_timer)
  /\ [][(initEvent /\ ~initEvent') => (~self.m_timer /\ self'.m_timer)]_vars
  /\ [][Tick => (self.m_timer /\ self'.m_timer)]_vars
  /\ [][(~self.m_disposed /\ self'.m_disposed) => ~self'.m_timer]_vars
  /\ \A n \in 0..(MaxTicks - 1) : (Active /\ ticks = n) ~> (ticks > n \/ ~Active)

\* MaxTicks Updates have fired and the next tick is pending
C13_Witness ==
  Active /\ ticks = MaxTicks /\ self.m_timer


\* C14: end-to-end scenario 1: with gamma = 0.5, alpha = 1.0, rate = 1 Mbps,
\* rateThresh = 500 Mbps, rateMax = 1000 Mbps, weight = 0.1 and
\* interval = 0.0001 s, a tick with no marked byte and sentBytes = 125000
\* leaves alpha = 0.5 and rate = 1000 Mbps.
C14_ScenarioOne ==
  [][(/\ Tick
      /\ self.m_g = <<1, 2>>
      /\ self.m_alpha = One
      /\ self.m_rate = 1000000
      /\ self.m_rateThresh = 500000000
      /\ self.m_rateMax = 1000000000
      /\ self.m_weight = <<1, 10>>
      /\ self.m_interval = <<1, 10000>>
      /\ GetMarkedRatio(self.m_ecnRecorder) = Zero
      /\ GetMarkedBytes(self.m_ecnRecorder) = 0
      /\ self.m_sentBytes = 125000)
     => (self'.m_alpha = <<1, 2>> /\ self'.m_rate = 1000000000)]_vars

\* the state right after the scenario's tick, taken in the slow-start branch
C14_Witness ==
  /\ ticks = 1
  /\ last = "slow-start"
  /\ sinceTick = NoForwards
  /\ self.m_g = <<1, 2>>
  /\ self.m_weight = <<1, 10>>
  /\ self.m_interval = <<1, 10000>>
  /\ self.m_rateThresh = 500000000
  /\ self.m_alpha = <<1, 2>>
  /\ self.m_rate = 1000000000


\* a tick is left by a collaborator fault
Faulted == fault = "none" /\ fault' \in EcnCalls \cup {"UpdateInfo"}

\* C15 as stated: a tick that a collaborator fault interrupts leaves alpha,
\* weightRequest, rate, rateThresh, sentBytes and the timer as they were.
C15_FaultLeavesNoPartialEffect ==
  [][Faulted =>
       /\ self'.m_alpha = self.m_alpha
       /\ self'.m_weightRequest = self.m_weightRequest
       /\ self'.m_rate = self.m_rate
       /\ self'.m_rateThresh = self.m_rateThresh
       /\ self'.m_sentBytes = self.m_sentBytes
       /\ self'.m_timer = self.m_timer]_vars

\* C15, amended: a collaborator fault aborts the rest of the tick and nothing
\* is undone: the expired timer is not armed again and sentBytes is not
\* reset; alpha is refreshed unless GetMarkedRatio faulted; weightRequest is
\* refreshed once the flow loop has finished; rate and rateThresh are those of
\* UpdateRate only when the fault comes from the recorder's Reset.
C15_FaultAbortsRestOfTick ==
  [][Faulted =>
       /\ ~self'.m_timer
       /\ self'.m_sentBytes = self.m_sentBytes
       /\ ticks' = ticks
       /\ self'.m_alpha =
            IF fault' = "GetMarkedRatio" THEN self.m_alpha ELSE NextAlpha(self)
       /\ self'.m_weightRequest =
            IF fault' \in {"GetMarkedRatio", "UpdateInfo"}
              THEN self.m_weightRequest
              ELSE SumWeights(self.m_flowList, DOMAIN self.m_flowList)
       /\ self'.m_ecnRecorder = self.m_ecnRecorder
       /\ IF fault' = "Reset"
            THEN \E ub \in UndefinedConversion :
                   /\ self'.m_rate = UpdateRate(UpdateInfo(self), ub).m_rate
                   /\ self'.m_rateThresh = UpdateRate(UpdateInfo(self), ub).m_rateThresh
            ELSE /\ self'.m_rate = self.m_rate
                 /\ self'.m_rateThresh = self.m_rateThresh]_vars

\* the first tick was interrupted in the second flow's UpdateInfo: alpha has
\* decayed, the first flow was refreshed, the forwarded bytes are still
\* counted and no tick is pending
C15_Witness ==
  /\ fault = "UpdateInfo"
  /\ ticks = 0
  /\ self.m_alpha = <<15, 16>>
  /\ self.m_sentBytes > 0
  /\ ~self.m_timer
  /\ DOMAIN self.m_flowList = FlowIds
  /\ self.m_flowList[1].updates = 1
  /\ self.m_flowList[2].updates = 0


\* a packet is given to Forward
Forwarding == sinceTick'.forwards = sinceTick.forwards + 1

\* C16: Forward does not enforce the rate budget: every packet given to it is
\* counted and handed to the forward target, whatever rate and sentBytes are,
\* and rate, rateThresh, alpha, weight, weightRequest and the pending timer
\* are left unchanged.
C16_ForwardIgnoresBudget ==
  [][Forwarding =>
       /\ self'.m_sentBytes > self.m_sentBytes
       /\ self.m_forwardTarget =>
            (sinceTick'.calls = sinceTick.calls + 1 /\ fault' = fault)
       /\ self'.m_rate = self.m_rate
       /\ self'.m_rateThresh = self.m_rateThresh
       /\ self'.m_alpha = self.m_alpha
       /\ self'.m_weight = self.m_weight
       /\ self'.m_weightRequest = self.m_weightRequest
       /\ self'.m_timer = self.m_timer]_vars

\* with the rate at 1 Mbps (100 bits per interval) two packets, 140000 bits,
\* have been handed on within one interval
C16_Witness ==
  /\ ticks > 0
  /\ fault = "none"
  /\ self.m_rate = DefaultMinRate
  /\ self.m_interval = <<1, 10000>>
  /\ sinceTick.calls = 2
  /\ sinceTick.bytes = 17500
  /\ self.m_timer


\* C17: rateThresh changes only through SetRateThresh (a step that changes
\* nothing else) or through a tick with marked bytes; a tick with
\* markedBytes = 0 leaves it unchanged in the slow-start and in the
\* congestion-avoidance sub-branch.
C17_ThreshChangesOnlyOnCongestion ==
  [][/\ self'.m_rateThresh # self.m_rateThresh =>
          \/ Tick /\ GetMarkedBytes(self.m_ecnRecorder) > 0
          \/ /\ self' = [self EXCEPT !.m_rateThresh = self'.m_rateThresh]
             /\ UNCHANGED <<initEvent, fault, ticks, sinceTick, last>>
     /\ (Tick /\ GetMarkedBytes(self.m_ecnRecorder) = 0) =>
          /\ last' \in {"slow-start", "avoidance"}
          /\ self'.m_rateThresh = self.m_rateThresh]_vars

\* a congestion-avoidance tick has moved the rate and left the threshold that
\* SetRateThresh had installed
C17_Witness ==
  /\ last = "avoidance"
  /\ self.m_rateThresh = 100000000
  /\ self.m_rate > self.m_rateThresh
  /\ self.m_rate < self.m_rateMax


\* C18: weight is changed only by SetWeight, a step that changes nothing else
\* (so no Update, Forward or SetRateThresh modifies it, and SetWeight leaves
\* rate, rateThresh, alpha, weightRequest and sentBytes unchanged); the rate
\* changes only at a tick, so a new weight acts on it at the next tick.
C18_WeightChangedOnlyBySetWeight ==
  [][/\ self'.m_weight # self.m_weight =>
          /\ self' = [self EXCEPT !.m_weight = self'.m_weight]
          /\ UNCHANGED <<initEvent, fault, ticks, sinceTick, last>>
     /\ self'.m_rate # self.m_rate => Tick
     /\ Tick => self'.m_weight = self.m_weight
     /\ Forwarding => self'.m_weight = self.m_weight]_vars

\* before the first tick the weight has been set and the rate is still the
\* constructor's
C18_Witness ==
  /\ ticks = 0
  /\ fault = "none"
  /\ self.m_timer
  /\ self.m_weight = <<1, 2>>
  /\ self.m_rate = 0
  /\ self.m_alpha = One


\* C19: a congestion tick never raises the rate above the achieved throughput
\* prevRateBps = sentBytes*8/interval: the threshold it stores, the candidate
\* in whole bits per second, lies between prevRateBps/2 and prevRateBps, and
\* the new rate is at most max(rateMin, prevRateBps).
C19_CongestionNeverExceedsThroughput ==
  [][(Tick /\ GetMarkedBytes(self.m_ecnRecorder) > 0) =>
       LET bits == self.m_sentBytes * 8 * self.m_interval[2]
       IN /\ self'.m_rateThresh <= bits \div self.m_interval[1]
          /\ self'.m_rateThresh >= bits \div (2 * self.m_interval[1])
          /\ self'.m_rate <= Max(self.m_rateMin, bits \div self.m_interval[1])]_vars

\* a congestion tick with alpha below 1 stored a threshold above rateMax (and
\* below the achieved 1.4 Gbps) and the rate was clamped to rateMax
C19_Witness ==
  /\ last = "congestion"
  /\ self.m_alpha[1] < self.m_alpha[2]
  /\ self.m_rateMin <= self.m_rateMax
  /\ self.m_rateThresh > self.m_rateMax
  /\ self.m_rate = self.m_rateMax

=============================================================================
